---- MODULE Spec2Model ----
(***************************************************************************)
(* Model of greatfet.peripherals.spi_bus.SPIBus: construction (SPI_INIT),  *)
(* attach_device and transmit (SPI_WRITE, then a conditional SPI_READ).    *)
(* The board is an external collaborator: each vendor request either       *)
(* completes or raises, and a read returns the requested number of bytes.  *)
(***************************************************************************)
EXTENDS Integers, Sequences, FiniteSets

VARIABLES
    pc,              \* "new" | "failed" | "idle" | "write" | "read"
    buffer_size,     \* self.buffer_size
    devices,         \* self.devices
    data,            \* the caller's list object passed to transmit as data
    receive_length,  \* transmit's local receive_length (None is <<>>, n is <<n>>)
    result,          \* what the last transmit returned
    outcome,         \* "none" | "returned" | "ValueError" | a transport error
    inits,           \* history: the SPI_INIT requests issued so far
    requests,        \* history: the board requests of the current transmit call
    trace,           \* history: kind and completion of the latest board requests
    data0,           \* history: the contents of data when transmit was called
    rl_arg,          \* history: receive_length as the caller supplied it
    response,        \* history: what the board answered to the latest SPI_READ
    raised,          \* history: the error the board raised in the current call
    attached,        \* history: the devices handed to attach_device, in order
    ctor             \* history: the constructor's arguments

vars == <<pc, buffer_size, devices, data, receive_length, result, outcome,
          inits, requests, trace, data0, rl_arg, response, raised, attached, ctor>>

busVars == <<buffer_size, devices>>
callVars == <<data, receive_length, result, outcome, data0, rl_arg>>
boardVars == <<inits, requests, trace, response, raised>>

----------------------------------------------------------------------------
\* Bounds of the model.

MaxLen == 2        \* longest data sequence; buffer sizes are 1..MaxLen
MaxByte == 1       \* byte values are 0..MaxByte
MaxDevices == 2    \* attach_device is called at most this often
MaxClockArg == 256 \* clock arguments are drawn from 0..MaxClockArg
TraceWindow == 3   \* the history keeps the latest TraceWindow board requests

\* Program constants.

DefaultBufferSize == 255
DefaultSerialClockRate == 2
DefaultClockPrescaleRate == 100
ClockPrescaleRateMin == 2
ClockPrescaleRateMax == 254
ShiftBits == 8

----------------------------------------------------------------------------
\* Input domains.

Bytes == 0..MaxByte
SeqsUpTo(n) == UNION { [1..k -> Bytes] : k \in 0..n }
SeqsOfLen(n) == [1..n -> Bytes]
None == <<>>
Some(n) == <<n>>
ReceiveLengths == {None} \cup { Some(n) : n \in (-1)..(MaxLen + 1) }
Devices == {"deviceA", "deviceB"}
TransportErrors == {"USBError", "USBTimeout"}

\* The history of board requests, oldest first, cut to the latest TraceWindow.
Issued(req, ok) == [req |-> req, ok |-> ok]
Push(t, r) == IF Len(t) < TraceWindow THEN Append(t, r) ELSE Append(Tail(t), r)

----------------------------------------------------------------------------
\* Integer helpers of the constructor.

RECURSIVE Pow2(_)
Pow2(n) == IF n = 0 THEN 1 ELSE 2 * Pow2(n - 1)

ShiftLeft(x, n) == x * Pow2(n)

RECURSIVE BitOr(_, _)
BitOr(a, b) ==
    IF a = 0 THEN b
    ELSE IF b = 0 THEN a
    ELSE (IF (a % 2 = 1) \/ (b % 2 = 1) THEN 1 ELSE 0)
         + 2 * BitOr(a \div 2, b \div 2)

\* The serial clock rate is the high byte of the configuration word.
SerialClockRateMax == Pow2(ShiftBits) - 1

\* The prescaler and the serial clock rate exchanged.
FreqSwapped(serial_clock_rate, clock_prescale_rate) ==
    BitOr(serial_clock_rate, ShiftLeft(clock_prescale_rate, ShiftBits))

\* freq = serial_clock_rate << 8 | clock_prescale_rate
Freq(serial_clock_rate, clock_prescale_rate) ==
    BitOr(ShiftLeft(serial_clock_rate, ShiftBits), clock_prescale_rate)

----------------------------------------------------------------------------
\* The board's vendor requests, as the records kept in the history.

vendor_request_out(req, value, payload, ok) ==
    [req |-> req, value |-> value, data |-> payload, length |-> 0, ok |-> ok]

vendor_request_in(req, length, ok) ==
    [req |-> req, value |-> 0, data |-> <<>>, length |-> length, ok |-> ok]

\* What a completed SPI_READ of the given length can return.
Responses(length) == SeqsOfLen(length)

----------------------------------------------------------------------------
\* Pure steps of transmit.

\* The default receive length forgotten.
EffectiveLengthNoDefault(d, rl) == IF rl = None THEN 0 ELSE rl[1]

\* if receive_length is None: receive_length = len(data)
EffectiveLength(d, rl) == IF rl = None THEN Len(d) ELSE rl[1]

Zeros(n) == [i \in 1..n |-> 0]
ZeroSeqs == { Zeros(k) : k \in 0..MaxLen }

\* Padding by the receive length instead of by the difference.
PadByLength(d, n) == IF n > Len(d) THEN d \o Zeros(n) ELSE d

\* if receive_length > len(data): data.extend([0] * padding)
Pad(d, n) == IF n > Len(d) THEN d \o Zeros(n - Len(d)) ELSE d

\* The check made against the default size instead of the configured one.
ExceedsDefaultBuffer(d, size) == Len(d) > DefaultBufferSize

\* if len(data) > self.buffer_size: raise ValueError
ExceedsBuffer(d, size) == Len(d) > size

\* A read requested for a zero length too.
ReadRequestedAlways(n) == n >= 0

\* if receive_length > 0: ... vendor_request_in(SPI_READ, length=receive_length)
ReadRequested(n) == n > 0

\* A device already attached is not attached again.
attach_deviceOnce(devs, device) ==
    IF \E i \in 1..Len(devs) : devs[i] = device THEN devs ELSE Append(devs, device)

\* self.devices.append(device)
attach_device(devs, device) == Append(devs, device)

----------------------------------------------------------------------------
Init ==
    /\ pc = "new"
    /\ buffer_size = 0
    /\ devices = <<>>
    /\ data = <<>>
    /\ receive_length = None
    /\ result = <<>>
    /\ outcome = "none"
    /\ inits = <<>>
    /\ requests = <<>>
    /\ trace = <<>>
    /\ data0 = <<>>
    /\ rl_arg = None
    /\ response = <<>>
    /\ raised = "none"
    /\ attached = <<>>
    /\ ctor = [serial_clock_rate |-> 0, clock_prescale_rate |-> 0, buffer_size |-> 0]

\* SPIBus.__init__: store the limits, create the device list, send SPI_INIT.
\* A failing init request propagates out of the constructor: no bus exists.
Construct(rates, prescales, sizes) ==
    /\ pc = "new"
    /\ \E scr \in rates, cpr \in prescales, size \in sizes, ok \in BOOLEAN :
         /\ buffer_size' = size
         /\ devices' = <<>>
         /\ ctor' = [serial_clock_rate |-> scr, clock_prescale_rate |-> cpr,
                     buffer_size |-> size]
         /\ inits' = Append(inits, vendor_request_out("SPI_INIT", Freq(scr, cpr), <<>>, ok))
         /\ trace' = Push(trace, Issued("SPI_INIT", ok))
         /\ pc' = IF ok THEN "idle" ELSE "failed"
    /\ UNCHANGED <<callVars, requests, response, raised, attached>>

\* SPIBus.attach_device
Attach ==
    /\ pc = "idle"
    /\ Len(attached) < MaxDevices
    /\ \E device \in Devices :
         /\ devices' = attach_device(devices, device)
         /\ attached' = Append(attached, device)
    /\ UNCHANGED <<pc, buffer_size, callVars, boardVars, ctor>>

\* The bounds check made before the padding.
TransmitCheckFirst(datas, lengths) ==
    /\ pc = "idle"
    /\ \E d \in datas, rl \in lengths :
         LET n == EffectiveLength(d, rl)
             padded == Pad(d, n)
         IN  /\ data0' = d
             /\ rl_arg' = rl
             /\ receive_length' = Some(n)
             /\ result' = <<>>
             /\ requests' = <<>>
             /\ response' = <<>>
             /\ raised' = "none"
             /\ IF ExceedsBuffer(d, buffer_size)
                THEN /\ data' = d
                     /\ outcome' = "ValueError"
                     /\ pc' = "idle"
                ELSE /\ data' = padded
                     /\ outcome' = "none"
                     /\ pc' = "write"
    /\ UNCHANGED <<busVars, inits, trace, attached, ctor>>

\* The padding applied to a copy that is dropped when the check fails.
TransmitPadCopy(datas, lengths) ==
    /\ pc = "idle"
    /\ \E d \in datas, rl \in lengths :
         LET n == EffectiveLength(d, rl)
             padded == Pad(d, n)
         IN  /\ data0' = d
             /\ rl_arg' = rl
             /\ receive_length' = Some(n)
             /\ result' = <<>>
             /\ requests' = <<>>
             /\ response' = <<>>
             /\ raised' = "none"
             /\ IF ExceedsBuffer(padded, buffer_size)
                THEN /\ data' = d
                     /\ outcome' = "ValueError"
                     /\ pc' = "idle"
                ELSE /\ data' = padded
                     /\ outcome' = "none"
                     /\ pc' = "write"
    /\ UNCHANGED <<busVars, inits, trace, attached, ctor>>

\* SPIBus.transmit up to the bounds check: default the receive length, pad the
\* caller's list in place, raise ValueError when it exceeds the buffer.
Transmit(datas, lengths) ==
    /\ pc = "idle"
    /\ \E d \in datas, rl \in lengths :
         LET n == EffectiveLength(d, rl)
             padded == Pad(d, n)
         IN  /\ data0' = d
             /\ rl_arg' = rl
             /\ receive_length' = Some(n)
             /\ data' = padded
             /\ result' = <<>>
             /\ requests' = <<>>
             /\ response' = <<>>
             /\ raised' = "none"
             /\ IF ExceedsBuffer(padded, buffer_size)
                THEN /\ outcome' = "ValueError"
                     /\ pc' = "idle"
                ELSE /\ outcome' = "none"
                     /\ pc' = "write"
    /\ UNCHANGED <<busVars, inits, trace, attached, ctor>>

\* board.vendor_request_out(SPI_WRITE, data=data) completes.
WriteOk ==
    /\ pc = "write"
    /\ requests' = Append(requests, vendor_request_out("SPI_WRITE", 0, data, TRUE))
    /\ trace' = Push(trace, Issued("SPI_WRITE", TRUE))
    /\ pc' = "read"
    /\ UNCHANGED <<busVars, callVars, inits, response, raised, attached, ctor>>

\* A failed write tried again.
WriteFailRetry ==
    /\ pc = "write"
    /\ Len(requests) < MaxLen + 1
    /\ \E e \in TransportErrors :
         /\ requests' = Append(requests, vendor_request_out("SPI_WRITE", 0, data, FALSE))
         /\ trace' = Push(trace, Issued("SPI_WRITE", FALSE))
         /\ raised' = e
         /\ pc' = "write"
    /\ UNCHANGED <<busVars, callVars, inits, response, attached, ctor>>

\* A failed write ignored: transmit goes on to the read.
WriteFailIgnored ==
    /\ pc = "write"
    /\ \E e \in TransportErrors :
         /\ requests' = Append(requests, vendor_request_out("SPI_WRITE", 0, data, FALSE))
         /\ trace' = Push(trace, Issued("SPI_WRITE", FALSE))
         /\ raised' = e
         /\ pc' = "read"
    /\ UNCHANGED <<busVars, callVars, inits, response, attached, ctor>>

\* board.vendor_request_out(SPI_WRITE, data=data) raises: transmit ends with it.
WriteFail ==
    /\ pc = "write"
    /\ \E e \in TransportErrors :
         /\ requests' = Append(requests, vendor_request_out("SPI_WRITE", 0, data, FALSE))
         /\ trace' = Push(trace, Issued("SPI_WRITE", FALSE))
         /\ raised' = e
         /\ outcome' = e
         /\ pc' = "idle"
    /\ UNCHANGED <<busVars, data, receive_length, result, data0, rl_arg,
                   inits, response, attached, ctor>>

\* The requested read completes and its bytes are returned.
ReadOk ==
    /\ pc = "read"
    /\ ReadRequested(receive_length[1])
    /\ \E bytes \in Responses(receive_length[1]) :
         /\ requests' = Append(requests, vendor_request_in("SPI_READ", receive_length[1], TRUE))
         /\ trace' = Push(trace, Issued("SPI_READ", TRUE))
         /\ response' = bytes
         /\ result' = bytes
         /\ outcome' = "returned"
         /\ pc' = "idle"
    /\ UNCHANGED <<busVars, data, receive_length, data0, rl_arg,
                   inits, raised, attached, ctor>>

\* The requested read raises: transmit ends with that error.
ReadFail ==
    /\ pc = "read"
    /\ ReadRequested(receive_length[1])
    /\ \E e \in TransportErrors :
         /\ requests' = Append(requests, vendor_request_in("SPI_READ", receive_length[1], FALSE))
         /\ trace' = Push(trace, Issued("SPI_READ", FALSE))
         /\ raised' = e
         /\ outcome' = e
         /\ pc' = "idle"
    /\ UNCHANGED <<busVars, data, receive_length, result, data0, rl_arg,
                   inits, response, attached, ctor>>

\* No receipt requested: result = [] and no read request.
ReadSkip ==
    /\ pc = "read"
    /\ ~ReadRequested(receive_length[1])
    /\ result' = <<>>
    /\ outcome' = "returned"
    /\ pc' = "idle"
    /\ UNCHANGED <<busVars, data, receive_length, data0, rl_arg,
                   boardVars, attached, ctor>>

----------------------------------------------------------------------------
\* Spec: a bus with the default clock and a small buffer, any transfers.

DataSeqs == SeqsUpTo(MaxLen)
BufferSizes == 1..MaxLen
ClockArgs == 0..MaxClockArg

ConstructBus ==
    Construct({DefaultSerialClockRate}, {DefaultClockPrescaleRate}, BufferSizes)

TransmitAny == Transmit(DataSeqs, ReceiveLengths)

Next ==
    \/ ConstructBus
    \/ TransmitAny
    \/ WriteOk
    \/ WriteFail
    \/ ReadOk
    \/ ReadFail
    \/ ReadSkip

Spec == Init /\ [][Next]_vars

\* RegistrySpec: attach_device interleaved with transfers of zero bytes of
\* any length and receive length.

TransmitZeros == Transmit(ZeroSeqs, ReceiveLengths)

NextRegistry ==
    \/ ConstructBus
    \/ Attach
    \/ TransmitZeros
    \/ WriteOk
    \/ WriteFail
    \/ ReadOk
    \/ ReadFail
    \/ ReadSkip

RegistrySpec == Init /\ [][NextRegistry]_vars

\* ClockSpec: any clock arguments, the default buffer, one-byte transfers.

ConstructClock == Construct(ClockArgs, ClockArgs, {DefaultBufferSize})

TransmitByte == Transmit({<<1>>}, {None})

NextClock ==
    \/ ConstructClock
    \/ TransmitByte
    \/ WriteOk
    \/ WriteFail
    \/ ReadOk
    \/ ReadFail

ClockSpec == Init /\ [][NextClock]_vars

----------------------------------------------------------------------------
\* Vocabulary of the properties.

Max(a, b) == IF a >= b THEN a ELSE b
InCall == pc \in {"write", "read"}
Completed == pc = "idle" /\ outcome # "none"
Called == InCall \/ Completed
ArgLength == IF rl_arg = None THEN Len(data0) ELSE rl_arg[1]
PayloadLength == Max(Len(data0), ArgLength)
Count(kind) == Cardinality({ i \in 1..Len(requests) : requests[i].req = kind })
IsWrite(r, payload, ok) ==
    r.req = "SPI_WRITE" /\ r.data = payload /\ r.ok = ok
IsRead(r, length, ok) ==
    r.req = "SPI_READ" /\ r.length = length /\ r.ok = ok
ZeroPadded(payload, d, n) ==
    /\ Len(payload) = n
    /\ \A i \in 1..Len(d) : payload[i] = d[i]
    /\ \A i \in (Len(d) + 1)..n : payload[i] = 0

\* C1: a transfer whose payload after padding, max(len(data), effective
\* receive length), is longer than the buffer size ends with ValueError and
\* issues no board request, neither a write nor a read.
C1_CapacityError ==
    (Called /\ PayloadLength > buffer_size)
        => /\ pc = "idle"
           /\ outcome = "ValueError"
           /\ requests = <<>>
           /\ raised = "none"

C1_Witness ==
    /\ Completed
    /\ outcome = "ValueError"
    /\ rl_arg # None
    /\ Len(data0) <= buffer_size
    /\ rl_arg[1] > buffer_size

\* C2 as stated: with no receive length supplied and len(data) in
\* 0..buffer size, a transfer that returns has issued exactly one write with
\* the unmodified data and exactly one read of length len(data), and returns
\* what the read returned.
C2_AsStated ==
    (Completed /\ outcome = "returned" /\ rl_arg = None /\ Len(data0) <= buffer_size)
        => /\ Len(requests) = 2
           /\ IsWrite(requests[1], data0, TRUE)
           /\ IsRead(requests[2], Len(data0), TRUE)
           /\ result = response

\* C2 amended: with no receive length supplied and len(data) in 1..buffer
\* size, the transfer issues one write with the unmodified data, then (the
\* write completed) one read of length len(data), and returns what the read
\* returned; with empty data it issues the write, no read, and returns an
\* empty sequence.
C2_DefaultLength ==
    (Called /\ rl_arg = None /\ Len(data0) <= buffer_size)
        => /\ outcome # "ValueError"
           /\ data = data0
           /\ pc = "write" => requests = <<>>
           /\ pc = "read" => /\ Len(requests) = 1
                             /\ IsWrite(requests[1], data0, TRUE)
           /\ (Completed /\ outcome = "returned" /\ Len(data0) >= 1)
                 => /\ Len(requests) = 2
                    /\ IsWrite(requests[1], data0, TRUE)
                    /\ IsRead(requests[2], Len(data0), TRUE)
                    /\ result = response
           /\ (Completed /\ outcome = "returned" /\ Len(data0) = 0)
                 => /\ Len(requests) = 1
                    /\ IsWrite(requests[1], <<>>, TRUE)
                    /\ result = <<>>
           /\ (Completed /\ outcome # "returned")
                 => /\ outcome \in TransportErrors
                    /\ ~requests[Len(requests)].ok

C2_Witness ==
    /\ Completed
    /\ outcome = "returned"
    /\ rl_arg = None
    /\ Len(data0) = buffer_size
    /\ Len(requests) = 2
    /\ \E i \in 1..Len(result) : result[i] # data0[i]

\* C3: with len(data) < receive length <= buffer size, the write carries
\* data followed by exactly (receive length - len(data)) zero bytes, and the
\* read that follows the completed write asks for receive length bytes.
C3_Padding ==
    (Called /\ rl_arg # None /\ Len(data0) < ArgLength /\ ArgLength <= buffer_size)
        => /\ outcome # "ValueError"
           /\ ZeroPadded(data, data0, ArgLength)
           /\ \A i \in 1..Len(requests) :
                /\ requests[i].req = "SPI_WRITE"
                     => /\ i = 1
                        /\ ZeroPadded(requests[i].data, data0, ArgLength)
                /\ requests[i].req = "SPI_READ"
                     => /\ i = 2
                        /\ requests[i].length = ArgLength
           /\ pc = "read" => /\ Len(requests) = 1
                             /\ requests[1].req = "SPI_WRITE"
                             /\ receive_length = Some(ArgLength)
           /\ (Completed /\ requests[1].ok)
                 => /\ Len(requests) = 2
                    /\ requests[2].req = "SPI_READ"

C3_Witness ==
    /\ Completed
    /\ outcome = "returned"
    /\ rl_arg # None
    /\ Len(data0) >= 1
    /\ data0[1] # 0
    /\ ArgLength = Len(data0) + 1
    /\ Len(requests) = 2

\* C4: when the effective receive length is zero (0 supplied, or none
\* supplied and data empty) and len(data) <= buffer size, the transfer issues
\* exactly one write, no read, and returns an empty sequence.
C4_NoRead ==
    (Called /\ ArgLength = 0 /\ Len(data0) <= buffer_size)
        => /\ outcome # "ValueError"
           /\ Count("SPI_READ") = 0
           /\ Count("SPI_WRITE") = (IF pc = "write" THEN 0 ELSE 1)
           /\ pc # "write" => IsWrite(requests[1], data0, requests[1].ok)
           /\ (Completed /\ requests[1].ok)
                 => /\ outcome = "returned"
                    /\ result = <<>>
           /\ (Completed /\ ~requests[1].ok) => outcome \in TransportErrors

C4_Witness ==
    /\ Completed
    /\ outcome = "returned"
    /\ rl_arg = Some(0)
    /\ Len(data0) >= 1
    /\ Len(requests) = 1
    /\ trace[Len(trace)] = Issued("SPI_WRITE", TRUE)

\* C5: within a transfer a read is issued only after the write of the same
\* call has completed, a call issues at most one write and at most one read,
\* and over any sequence of transfers every read directly follows, in the
\* order of the board's requests, the completed write of its own call.
C5_RequestShape ==
    /\ Len(requests) <= 2
    /\ Count("SPI_WRITE") <= 1
    /\ Count("SPI_READ") <= 1
    /\ Len(requests) >= 1 => requests[1].req = "SPI_WRITE"
    /\ Len(requests) = 2 => /\ requests[1].ok
                            /\ requests[2].req = "SPI_READ"
    /\ \A i \in 2..Len(trace) :
         trace[i].req = "SPI_READ" => trace[i - 1] = Issued("SPI_WRITE", TRUE)
    /\ (Len(trace) >= 1 /\ trace[1].req = "SPI_READ") => Len(trace) = TraceWindow

C5_ReadStep ==
    (requests' # requests /\ requests' # <<>> /\ requests'[Len(requests')].req = "SPI_READ")
        => /\ pc = "read"
           /\ trace[Len(trace)] = Issued("SPI_WRITE", TRUE)
           /\ Len(requests) = 1
           /\ IsWrite(requests[1], data, TRUE)
           /\ requests' = Append(requests, requests'[2])
           /\ trace'[Len(trace')].req = "SPI_READ"

C5_WriteThenRead == [](C5_RequestShape) /\ [][C5_ReadStep]_vars

C5_Witness ==
    /\ Completed
    /\ Len(requests) = 2
    /\ Len(trace) = TraceWindow
    /\ trace[Len(trace)].req = "SPI_READ"
    /\ trace[Len(trace) - 1] = Issued("SPI_WRITE", TRUE)
    /\ trace[1].req # "SPI_INIT"

\* C6: for a serial clock rate in 0..255 and an even prescale rate in
\* 2..254, construction issues exactly one SPI_INIT request, without data
\* bytes, whose value is serial_clock_rate * 256 + clock_prescale_rate; the
\* word fits in 16 bits, its high byte is the serial clock rate and its low
\* byte the prescale rate (2 and 100 give 0x0264 = 612), and the request
\* comes before every write or read request of the bus.
C6_ClockWord ==
    (/\ pc # "new"
     /\ ctor.serial_clock_rate \in 0..SerialClockRateMax
     /\ ctor.clock_prescale_rate \in ClockPrescaleRateMin..ClockPrescaleRateMax
     /\ ctor.clock_prescale_rate % 2 = 0)
        => /\ Len(inits) = 1
           /\ inits[1].req = "SPI_INIT"
           /\ inits[1].data = <<>>
           /\ inits[1].value = ctor.serial_clock_rate * 256 + ctor.clock_prescale_rate
           /\ inits[1].value < 65536
           /\ inits[1].value \div 256 = ctor.serial_clock_rate
           /\ inits[1].value % 256 = ctor.clock_prescale_rate
           /\ (ctor.serial_clock_rate = 2 /\ ctor.clock_prescale_rate = 100)
                 => inits[1].value = 612
           /\ (requests # <<>> \/ InCall) => inits[1].ok
           /\ Len(trace) < TraceWindow => trace[1] = Issued("SPI_INIT", inits[1].ok)
           /\ \A i \in 2..Len(trace) : trace[i].req # "SPI_INIT"

C6_Witness ==
    /\ Completed
    /\ ctor.serial_clock_rate = SerialClockRateMax
    /\ ctor.clock_prescale_rate = ClockPrescaleRateMax
    /\ inits[1].value = 65534
    /\ Len(requests) = 2
    /\ trace = <<Issued("SPI_INIT", TRUE), Issued("SPI_WRITE", TRUE),
                 Issued("SPI_READ", TRUE)>>

\* C7: the device registry is empty after construction and, after any
\* interleaving of attach and transfer calls, successful or failed, it is
\* the sequence of attached devices in call order, duplicates included;
\* attach issues no board request and a transfer never changes the registry.
C7_RegistryIsAttached ==
    /\ devices = attached
    /\ pc \in {"new", "failed"} => devices = <<>>

C7_RegistryStep ==
    /\ pc = "new" => devices' = <<>>
    /\ devices' # devices
         => /\ pc = "idle" /\ pc' = "idle"
            /\ \E device \in Devices : devices' = Append(devices, device)
            /\ UNCHANGED <<boardVars, callVars, buffer_size>>
    /\ (callVars' # callVars \/ boardVars' # boardVars) => devices' = devices

C7_Registry == [](C7_RegistryIsAttached) /\ [][C7_RegistryStep]_vars

C7_Witness ==
    /\ Completed
    /\ outcome = "ValueError"
    /\ devices = <<"deviceB", "deviceB">>
    /\ \E i \in 1..Len(trace) : trace[i].req = "SPI_READ"

\* C8: a transport failure is neither retried nor swallowed. A failed write
\* ends the transfer with that error after exactly one write and no read; a
\* failed read ends it with that error after exactly one write and one read.
C8_NoRetry ==
    /\ Count("SPI_WRITE") <= 1
    /\ Count("SPI_READ") <= 1
    /\ \A i \in 1..Len(requests) :
         ~requests[i].ok
            => /\ i = Len(requests)
               /\ pc = "idle"
               /\ raised \in TransportErrors
               /\ outcome = raised
               /\ requests[i].req = "SPI_WRITE" => Len(requests) = 1
               /\ requests[i].req = "SPI_READ"
                    => /\ Len(requests) = 2
                       /\ IsWrite(requests[1], data, TRUE)
    /\ raised # "none" => /\ requests # <<>>
                          /\ ~requests[Len(requests)].ok
    /\ outcome \in TransportErrors => outcome = raised

C8_Witness ==
    /\ Completed
    /\ outcome = "USBTimeout"
    /\ Len(requests) = 2
    /\ ~requests[2].ok

\* C9: the padding is applied in place and before the bounds check. After a
\* transfer with receive length > len(data) the caller's sequence is the
\* original bytes followed by zeros, of length receive length, also when the
\* call fails with ValueError; otherwise the caller's sequence is unchanged.
C9_InPlace ==
    Called
        => /\ ArgLength > Len(data0) => ZeroPadded(data, data0, ArgLength)
           /\ ArgLength <= Len(data0) => data = data0

C9_Witness ==
    /\ Completed
    /\ outcome = "ValueError"
    /\ Len(data0) >= 1
    /\ Len(data) > Len(data0)
    /\ Len(data) > buffer_size

\* C10: with a non-negative receive length, every write carries a payload
\* of length max(len(data), effective receive length), at most the buffer
\* size fixed at construction; every read asks for exactly the effective
\* receive length, at least 1 and at most the length of the payload just
\* written; with receive length < len(data) the data is written unmodified.
C10_Lengths ==
    /\ pc \notin {"new"} => buffer_size = ctor.buffer_size
    /\ (Called /\ ArgLength >= 0)
         => \A i \in 1..Len(requests) :
              /\ requests[i].req = "SPI_WRITE"
                   => /\ Len(requests[i].data) = PayloadLength
                      /\ Len(requests[i].data) <= ctor.buffer_size
                      /\ ArgLength < Len(data0) => requests[i].data = data0
              /\ requests[i].req = "SPI_READ"
                   => /\ requests[i].length = ArgLength
                      /\ requests[i].length >= 1
                      /\ requests[i - 1].req = "SPI_WRITE"
                      /\ requests[i].length <= Len(requests[i - 1].data)

C10_Witness ==
    /\ Completed
    /\ outcome = "returned"
    /\ rl_arg # None
    /\ ArgLength >= 1
    /\ ArgLength < Len(data0)
    /\ Len(requests) = 2
    /\ Len(result) = ArgLength

====
